---- MODULE Spec2Model ----
(***************************************************************************)
(* Model of streamlit_app.py: the bank-statement report viewer.            *)
(*                                                                         *)
(* JSON / Python values are tagged records [t, v]:                         *)
(*   null  v = <<>>          bool  v \in BOOLEAN      num  v \in Int        *)
(*   str   v = sequence of one-character strings                           *)
(*   list  v = sequence of values                                          *)
(*   dict  v = sequence of [k, val] entries in key order                   *)
(* A Python exception leaving an expression is the value [t |-> "raise"].  *)
(***************************************************************************)
EXTENDS Integers, Sequences, FiniteSets

VARIABLES uploaded_file, data, schema_version, company, screen, pc, prev_pc,
          fn_data, fn_default, fn_called, fn_ret

vars == <<uploaded_file, data, schema_version, company, screen, pc, prev_pc,
          fn_data, fn_default, fn_called, fn_ret>>

app_vars == <<uploaded_file, data, schema_version, company, screen, pc, prev_pc>>

fn_vars == <<fn_data, fn_default, fn_called, fn_ret>>

-----------------------------------------------------------------------------
(* Python values *)

PyNone == [t |-> "null", v |-> <<>>]

PyBool(b) == [t |-> "bool", v |-> b]

PyNum(n) == [t |-> "num", v |-> n]

PyStr(s) == [t |-> "str", v |-> s]

PyList(s) == [t |-> "list", v |-> s]

PyDict(s) == [t |-> "dict", v |-> s]

KV(key, value) == [k |-> key, val |-> value]

EmptyDict == PyDict(<<>>)

EmptyList == PyList(<<>>)

EmptyStr == PyStr(<<>>)

Exc(name) == [t |-> "raise", v |-> name]

\* an on-screen element is a record without a tag
IsExc(x) == "t" \in DOMAIN x /\ x.t = "raise"

\* bool(x): None, False, 0, "", [] and {} are falsy
Truthy(x) ==
    CASE x.t = "null" -> FALSE
      [] x.t = "bool" -> x.v
      [] x.t = "num"  -> x.v # 0
      [] OTHER        -> Len(x.v) > 0

HasKey(d, key) == \E i \in 1..Len(d.v) : d.v[i].k = key

\* dict.get(key, dflt) on an object that is known to be a dict
DictGet(d, key, dflt) ==
    IF HasKey(d, key)
    THEN d.v[CHOOSE i \in 1..Len(d.v) :
                 d.v[i].k = key /\ \A j \in (i+1)..Len(d.v) : d.v[j].k # key].val
    ELSE dflt

\* x.get(key, dflt) on any object: only a dict has the attribute
Get(x, key, dflt) ==
    IF x.t = "dict" THEN DictGet(x, key, dflt) ELSE Exc("AttributeError")

-----------------------------------------------------------------------------
(* str methods *)

Whitespace == {" ", "\t", "\n"}

UpperChars == <<"A","B","C","D","E","F","G","H","I","J","K","L","M",
                "N","O","P","Q","R","S","T","U","V","W","X","Y","Z">>

LowerChars == <<"a","b","c","d","e","f","g","h","i","j","k","l","m",
                "n","o","p","q","r","s","t","u","v","w","x","y","z">>

LowerChar(c) ==
    IF \E i \in 1..26 : UpperChars[i] = c
    THEN LowerChars[CHOOSE i \in 1..26 : UpperChars[i] = c]
    ELSE c

\* str.lower()
lower(s) == [i \in 1..Len(s) |-> LowerChar(s[i])]

\* str.strip()
strip(s) ==
    IF \A i \in 1..Len(s) : s[i] \in Whitespace
    THEN <<>>
    ELSE LET a == CHOOSE i \in 1..Len(s) :
                      s[i] \notin Whitespace /\ \A j \in 1..(i-1) : s[j] \in Whitespace
             b == CHOOSE i \in 1..Len(s) :
                      s[i] \notin Whitespace /\ \A j \in (i+1)..Len(s) : s[j] \in Whitespace
         IN SubSeq(s, a, b)

\* str.startswith(prefix)
startswith(s, prefix) ==
    Len(prefix) <= Len(s) /\ SubSeq(s, 1, Len(prefix)) = prefix

\* needle in haystack, for two str
Substring(needle, hay) ==
    \E i \in 0..(Len(hay) - Len(needle)) : SubSeq(hay, i + 1, i + Len(needle)) = needle

\* str.replace(old, new) for a one-character old
replace(s, old, new) == [i \in 1..Len(s) |-> IF s[i] = old THEN new ELSE s[i]]

-----------------------------------------------------------------------------
(* resolve_company_name *)

Blocklist == { <<"u","n","k","n","o","w","n">>, <<"n","/","a">>, <<"n","a">>,
               <<"c","o","m","p","a","n","y">>, <<"-">>, <<"n","u","l","l">> }

\* the test of one candidate in the for loop
Qualifies(c) ==
    /\ c.t = "str"
    /\ strip(c.v) # <<>>
    /\ lower(strip(c.v)) \notin Blocklist

RECURSIVE FirstQualifying(_, _, _)
FirstQualifying(candidates, i, default) ==
    IF i > Len(candidates) THEN default
    ELSE IF Qualifies(candidates[i]) THEN PyStr(strip(candidates[i].v))
    ELSE FirstQualifying(candidates, i + 1, default)

\* r = data.get("report_info", {}) or {}
ReportInfoOrEmpty(d) ==
    LET g == DictGet(d, "report_info", EmptyDict)
    IN IF Truthy(g) THEN g ELSE EmptyDict

resolve_company_name(d, default) ==
    IF d.t # "dict" THEN default
    ELSE LET r == ReportInfoOrEmpty(d)
         IN IF r.t # "dict" THEN Exc("AttributeError")
            ELSE FirstQualifying(
                   << DictGet(r, "company_name", PyNone),
                      DictGet(r, "company", PyNone),
                      DictGet(r, "entity_name", PyNone),
                      DictGet(d, "company_name", PyNone),
                      DictGet(d, "company", PyNone),
                      DictGet(d, "entity_name", PyNone) >>, 1, default)

-----------------------------------------------------------------------------
(* detect_schema_version *)

V5 == PyStr(<<"5", ".", "0">>)

V4 == PyStr(<<"4", ".", "0">>)

HighestIntraday ==
    <<"h","i","g","h","e","s","t","_","i","n","t","r","a","d","a","y">>

\* obj[0]
Index0(x) ==
    CASE x.t = "list" -> IF Len(x.v) > 0 THEN x.v[1] ELSE Exc("IndexError")
      [] x.t = "str"  -> IF Len(x.v) > 0 THEN PyStr(<<x.v[1]>>) ELSE Exc("IndexError")
      [] x.t = "dict" -> Exc("KeyError")
      [] OTHER        -> Exc("TypeError")

\* "highest_intraday" in x : TRUE, FALSE or an exception
ContainsHighestIntraday(x) ==
    CASE x.t = "dict" -> PyBool(HasKey(x, "highest_intraday"))
      [] x.t = "list" -> PyBool(\E i \in 1..Len(x.v) : x.v[i] = PyStr(HighestIntraday))
      [] x.t = "str"  -> PyBool(Substring(HighestIntraday, x.v))
      [] OTHER        -> Exc("TypeError")

\* lines 53-59
DetectByAccounts(d) ==
    LET accounts == DictGet(d, "accounts", EmptyList)
    IN IF ~Truthy(accounts) THEN V4
       ELSE LET first == Index0(accounts)
            IN IF IsExc(first) THEN first
               ELSE LET monthly == Get(first, "monthly_summary", EmptyList)
                    IN IF IsExc(monthly) THEN monthly
                       ELSE IF ~Truthy(monthly) THEN V4
                       ELSE LET m0 == Index0(monthly)
                            IN IF IsExc(m0) THEN m0
                               ELSE LET has == ContainsHighestIntraday(m0)
                                    IN IF IsExc(has) THEN has
                                       ELSE IF has.v THEN V5 ELSE V4

detect_schema_version(d) ==
    LET ri == Get(d, "report_info", EmptyDict)
    IN IF IsExc(ri) THEN ri
       ELSE LET sv == Get(ri, "schema_version", EmptyStr)
            IN IF IsExc(sv) THEN sv
               ELSE IF sv.t # "str" THEN Exc("AttributeError")
               ELSE IF startswith(sv.v, <<"5", ".">>) THEN V5
               ELSE IF Truthy(DictGet(d, "recurring_payments", PyNone))
                       \/ Truthy(DictGet(d, "non_bank_financing", PyNone)) THEN V5
               ELSE DetectByAccounts(d)

-----------------------------------------------------------------------------
(* Formatting.  An interpolation {x} or {x:.0f} of an f-string is kept as  *)
(* a part [src, val, fmt]: src names the template slot, val is the value   *)
(* whose text is emitted.  str(x) raises for no JSON value; the text of a  *)
(* str is its own characters, with nothing added or replaced.             *)

Part(slot, value) == [src |-> slot, val |-> value, fmt |-> "s"]

\* format(x, ".0f"); numbers of the model are integers, which print as
\* their own digits; True/False print as 1/0
Format0f(x) ==
    CASE x.t = "num"  -> PyNum(x.v)
      [] x.t = "bool" -> PyNum(IF x.v THEN 1 ELSE 0)
      [] x.t = "str"  -> Exc("ValueError")
      [] OTHER        -> Exc("TypeError")

Part0f(slot, value) == [src |-> slot, val |-> Format0f(value), fmt |-> ".0f"]

\* len(x)
PyLen(x) ==
    IF x.t \in {"list", "str", "dict"} THEN PyNum(Len(x.v)) ELSE Exc("TypeError")

\* the items of `for o in x`; a dict yields its keys (a key is written whole)
Iterate(x) ==
    CASE x.t = "list" -> PyList(x.v)
      [] x.t = "str"  -> PyList([i \in 1..Len(x.v) |-> PyStr(<<x.v[i]>>)])
      [] x.t = "dict" -> PyList([i \in 1..Len(x.v) |-> PyStr(<<x.v[i].k>>)])
      [] OTHER        -> Exc("TypeError")

\* the first exception among the values of xs, evaluated left to right
FirstExc(xs) ==
    IF \E i \in 1..Len(xs) : IsExc(xs[i])
    THEN xs[CHOOSE i \in 1..Len(xs) : IsExc(xs[i]) /\ \A j \in 1..(i-1) : ~IsExc(xs[j])]
    ELSE PyNone

\* x.get(key, dflt) where x itself may already be an exception
GetE(x, key, dflt) == IF IsExc(x) THEN x ELSE Get(x, key, dflt)

-----------------------------------------------------------------------------
(* generate_interactive_html *)

DefaultCompany == PyStr(<<"C","o","m","p","a","n","y">>)

DefaultUnknown == PyStr(<<"U","n","k","n","o","w","n">>)

StrNA == PyStr(<<"N","/","A">>)

StrLOW == PyStr(<<"L","O","W">>)

\* lines 93-150: the interpolated slots of the template, in template order
HtmlParts(co, ps, pe, tm, is, ir, vi, vl, ks, kl, obs, now) ==
    << Part("title", co), Part("h1", co),
       Part("period_start", ps), Part("period_end", pe), Part("total_months", tm),
       Part("int_score", is), Part("int_rating", ir),
       Part0f("vol_index", vi), Part("vol_level", vl),
       Part("kite_score", ks), Part("kite_level", kl) >>
    \o [i \in 1..Len(obs.v) |-> Part("li", obs.v[i])]
    \o << Part("generated", PyNum(now)) >>

\* line 78 with report_info left out of the lookup
HtmlCompany_TopLevelOnly(d) ==
    resolve_company_name(PyDict(SelectSeq(d.v, LAMBDA e : e.k # "report_info")),
                         DefaultCompany)

\* line 78
HtmlCompany(d) == resolve_company_name(d, DefaultCompany)

generate_interactive_html(d, now) ==
    LET sv   == detect_schema_version(d)
        r    == Get(d, "report_info", EmptyDict)
        integrity    == Get(d, "integrity_score", EmptyDict)
        volatility   == Get(d, "volatility", EmptyDict)
        kite         == Get(d, "kite_flying", EmptyDict)
        observations == Get(d, "observations", EmptyDict)
        co   == IF d.t = "dict" THEN HtmlCompany(d) ELSE PyNone
        ps   == GetE(r, "period_start", EmptyStr)
        pe   == GetE(r, "period_end", EmptyStr)
        tm   == GetE(r, "total_months", PyNum(0))
        is   == GetE(integrity, "score", PyNum(0))
        ir   == GetE(integrity, "rating", StrNA)
        vi   == GetE(volatility, "overall_index", PyNum(0))
        vl   == GetE(volatility, "overall_level", StrLOW)
        ks   == GetE(kite, "risk_score", PyNum(0))
        kl   == GetE(kite, "risk_level", StrLOW)
        vif  == IF IsExc(vi) THEN vi ELSE Format0f(vi)
        pos  == GetE(observations, "positive", EmptyList)
        obs  == IF IsExc(pos) THEN pos ELSE Iterate(pos)
        e    == FirstExc(<<sv, r, co, ps, pe, tm, is, ir, vi, vl, ks, kl, vif, obs>>)
    IN IF IsExc(e) THEN e
       ELSE [t |-> "html",
             v |-> HtmlParts(co, ps, pe, tm, is, ir, vi, vl, ks, kl, obs, now)]

-----------------------------------------------------------------------------
(* The on-screen elements of the main script *)

Element(kind, label, parts) == [kind |-> kind, label |-> label, body |-> parts]

\* line 170
ErrorElement(msg) == Element("error", "Invalid JSON", <<Part("e", msg)>>)

\* line 173
InfoElement == Element("info", "Upload a JSON file to begin", <<>>)

\* what Streamlit shows when an exception leaves the script
ExceptionElement(e) == Element("exception", e.v, <<>>)

\* line 179
Banner(co, sv) == Element("success", "Loaded", <<Part("company", co), Part("schema", sv)>>)

\* lines 181-186
Header(d, co) ==
    LET r  == Get(d, "report_info", EmptyDict)
        ps == GetE(r, "period_start", EmptyStr)
        pe == GetE(r, "period_end", EmptyStr)
        tm == GetE(r, "total_months", PyNum(0))
        e  == FirstExc(<<r, ps, pe, tm>>)
    IN IF IsExc(e) THEN e
       ELSE Element("markdown", "header",
                    << Part("company", co), Part("period_start", ps),
                       Part("period_end", pe), Part("total_months", tm) >>)

\* line 189
MetricIntegrity(d) ==
    LET x == GetE(Get(d, "integrity_score", EmptyDict), "score", PyNum(0))
    IN IF IsExc(x) THEN x ELSE Element("metric", "Integrity", <<Part("score", x)>>)

\* line 190; st.metric takes an int, float, str or None as its value and
\* raises TypeError for a list or dict
MetricKite(d) ==
    LET x == GetE(Get(d, "kite_flying", EmptyDict), "risk_score", PyNum(0))
    IN IF IsExc(x) THEN x
       ELSE IF x.t \in {"list", "dict"} THEN Exc("TypeError")
       ELSE Element("metric", "Kite Risk", <<Part("risk_score", x)>>)

\* line 191
MetricVolatility(d) ==
    LET x == GetE(Get(d, "volatility", EmptyDict), "overall_index", PyNum(0))
        f == IF IsExc(x) THEN x ELSE Format0f(x)
    IN IF IsExc(f) THEN f
       ELSE Element("metric", "Volatility", <<Part0f("overall_index", x)>>)

\* line 192
MetricAccounts(d) ==
    LET a == Get(d, "accounts", EmptyList)
        n == IF IsExc(a) THEN a ELSE PyLen(a)
    IN IF IsExc(n) THEN n ELSE Element("metric", "Accounts", <<Part("len", n)>>)

\* line 194
Divider == Element("markdown", "---", <<>>)

\* company.replace(' ', '_') followed by the literal suffix
FileName(co, suffix) == replace(co.v, " ", "_") \o <<suffix>>

\* lines 198-203; json.dumps(data, indent=2) is the text of the document
DownloadJson(d, co) ==
    [kind |-> "download_button", label |-> "Download JSON",
     body |-> <<Part("json.dumps", d)>>,
     file |-> FileName(co, "_analysis.json"), mime |-> "application/json"]

\* lines 206-211
DownloadHtml(d, co, now) ==
    LET h == generate_interactive_html(d, now)
    IN IF IsExc(h) THEN h
       ELSE [kind |-> "download_button", label |-> "Download HTML",
             body |-> h.v,
             file |-> FileName(co, "_analysis.html"), mime |-> "text/html"]

-----------------------------------------------------------------------------
(* Inputs *)

\* the most company-name candidates a document of InitResolve sets
MaxCands == 2

\* the most recognised fields a document of InitRender sets
MaxFields == 2

\* the readings of the wall clock
MaxClock == 2

Clock == 1..MaxClock

Acme == PyStr(<<"A","c","m","e">>)

Markup == PyStr(<<"<","b",">","&">>)

\* values a company-name candidate may hold
CandValues ==
    { Acme, PyStr(<<" ","A","c","m","e","\t">>), PyStr(<<"O","t","h","e","r"," ","C","o">>),
      EmptyStr, PyStr(<<" ","\n">>),
      PyStr(<<"U","N","K","N","O","W","N">>), PyStr(<<"N","/","a">>), PyStr(<<"n","a">>),
      PyStr(<<"C","o","m","p","a","n","y">>), PyStr(<<" ","-"," ">>), PyStr(<<"N","u","l","l">>),
      Markup, PyNone, PyNum(7), PyList(<<Acme>>) }

NameKeys == <<"company_name", "company", "entity_name">>

\* the bodies of the dicts that set at most budget of keys[i..], each to a
\* value of opts[i], in key order
RECURSIVE Bodies(_, _, _, _)
Bodies(keys, opts, i, budget) ==
    IF i > Len(keys) THEN {<<>>}
    ELSE Bodies(keys, opts, i + 1, budget)
         \cup (IF budget = 0 THEN {}
               ELSE { <<KV(keys[i], x)>> \o b :
                        x \in opts[i], b \in Bodies(keys, opts, i + 1, budget - 1) })

NameBodies(budget) == Bodies(NameKeys, [i \in 1..3 |-> CandValues], 1, budget)

\* values of the wrong type for a field that should be a mapping
NotMappings ==
    { PyNone, PyBool(FALSE), PyBool(TRUE), PyNum(0), PyNum(5), EmptyStr,
      PyStr(<<"x">>), EmptyList, PyList(<<PyNum(1)>>) }

Defaults == { DefaultUnknown, DefaultCompany, PyStr(<<"N","o"," ","N","a","m","e">>) }

\* d is an input of resolve_company_name: a value that is no mapping, or a
\* mapping with at most MaxCands candidates, nested or top-level, whose
\* report_info may also be absent or of the wrong type
IsResolveInput(d) ==
    \/ d \in NotMappings
    \/ \E a \in 0..MaxCands :
         \E n \in NameBodies(a), top \in NameBodies(MaxCands - a) :
            d = PyDict(<<KV("report_info", PyDict(n))>> \o top)
    \/ \E top \in NameBodies(MaxCands) : d = PyDict(top)
    \/ \E x \in NotMappings, top \in NameBodies(MaxCands) :
            d = PyDict(<<KV("report_info", x)>> \o top)

SchemaVersions ==
    { PyStr(<<"5",".","2">>), PyStr(<<"5",".">>), PyStr(<<"5">>), PyStr(<<"4",".","0">>),
      PyStr(<<"1","5",".","0">>), EmptyStr, PyNone, PyNum(5), PyList(<<PyStr(<<"5",".">>)>>) }

ReportInfos ==
    { EmptyDict, PyDict(<<KV("company_name", Acme)>>) }
    \cup { PyDict(<<KV("schema_version", x)>>) : x \in SchemaVersions }
    \cup { PyNone, PyStr(<<"5",".","0">>), PyNum(5), EmptyList }

MonthElements ==
    { EmptyDict, PyDict(<<KV("highest_intraday", PyNum(100))>>),
      PyDict(<<KV("closing_balance", PyNum(100))>>),
      PyStr(HighestIntraday), PyStr(<<"x">>) , PyList(<<PyStr(HighestIntraday)>>),
      PyNum(100), PyNone }

MonthlySummaries ==
    { EmptyList, PyNone, PyNum(3), PyStr(<<"h">>),
      PyDict(<<KV("highest_intraday", PyNum(100))>>) }
    \cup { PyList(<<m>>) : m \in MonthElements }
    \cup { PyList(<<PyDict(<<KV("closing_balance", PyNum(1))>>),
                    PyDict(<<KV("highest_intraday", PyNum(2))>>)>>) }

Accounts ==
    { EmptyDict, PyNone, PyNum(5), PyStr(<<"x">>), EmptyList }
    \cup { PyDict(<<KV("monthly_summary", m)>>) : m \in MonthlySummaries }

AccountLists ==
    { EmptyList, PyNone, PyNum(0), PyNum(2), PyStr(<<"a","b">>),
      PyDict(<<KV("a", PyNum(1))>>) }
    \cup { PyList(<<a>>) : a \in Accounts }
    \cup { PyList(<<EmptyDict,
                    PyDict(<<KV("monthly_summary",
                                PyList(<<PyDict(<<KV("highest_intraday", PyNum(1))>>)>>))>>)>>) }

Financings ==
    { EmptyList, PyList(<<PyNum(1)>>), PyNone, PyNum(0), PyNum(3), EmptyDict, PyStr(<<"x">>) }

DetectKeys == <<"report_info", "recurring_payments", "non_bank_financing", "accounts">>

DetectOpts == <<ReportInfos, Financings, Financings, AccountLists>>

\* d is an input of detect_schema_version: any of the four fields it reads
\* may be absent
IsDetectInput(d) ==
    \/ d \in NotMappings
    \/ \E b \in Bodies(DetectKeys, DetectOpts, 1, Len(DetectKeys)) : d = PyDict(b)

Observations ==
    { EmptyDict, PyDict(<<KV("positive", EmptyList)>>),
      PyDict(<<KV("positive", PyList(<<Acme, Markup>>))>>),
      PyDict(<<KV("positive", PyStr(<<"a","<">>))>>),
      PyDict(<<KV("positive", PyNum(5))>>), PyDict(<<KV("positive", PyNone)>>),
      PyDict(<<KV("positive", PyDict(<<KV("k", PyNum(1))>>))>>),
      PyNone, PyStr(<<"x">>), EmptyList }

Integrities ==
    { EmptyDict, PyDict(<<KV("score", PyNum(80)), KV("rating", PyStr(<<"G","O","O","D">>))>>),
      PyDict(<<KV("rating", Markup)>>), PyDict(<<KV("score", PyStr(<<"8","0">>))>>),
      PyNone, PyStr(<<"x">>), PyNum(5) }

Volatilities ==
    { EmptyDict,
      PyDict(<<KV("overall_index", PyNum(42)), KV("overall_level", PyStr(<<"H","I","G","H">>))>>),
      PyDict(<<KV("overall_index", PyStr(<<"4","2">>))>>),
      PyDict(<<KV("overall_index", PyNone)>>), PyDict(<<KV("overall_index", PyBool(TRUE))>>),
      PyDict(<<KV("overall_level", Markup)>>), PyNone, EmptyList }

Kites ==
    { EmptyDict,
      PyDict(<<KV("risk_score", PyNum(3)), KV("risk_level", PyStr(<<"M","E","D">>))>>),
      PyDict(<<KV("risk_level", Markup)>>),
      PyDict(<<KV("risk_score", PyList(<<PyNum(3)>>))>>), PyNone, PyStr(<<"x">>) }

RenderReportInfos ==
    { EmptyDict,
      PyDict(<<KV("company_name", Acme), KV("period_start", PyStr(<<"J","a","n">>)),
               KV("period_end", PyStr(<<"J","u","n">>)), KV("total_months", PyNum(6))>>),
      PyDict(<<KV("company_name", Markup)>>),
      PyDict(<<KV("company", PyStr(<<"O","t","h","e","r"," ","C","o">>)), KV("schema_version", PyStr(<<"5",".","1">>))>>),
      PyDict(<<KV("company_name", PyStr(<<"U","N","K","N","O","W","N">>))>>),
      PyNone, PyStr(<<"x">>) }

RenderAccounts ==
    { EmptyList, PyList(<<EmptyDict, EmptyDict>>), PyNone, PyNum(5), PyStr(<<"a","b">>),
      PyList(<<PyDict(<<KV("monthly_summary",
                          PyList(<<PyDict(<<KV("highest_intraday", PyNum(1))>>)>>))>>)>>) }

RenderKeys == <<"report_info", "company", "accounts", "integrity_score",
                "volatility", "kite_flying", "observations">>

RenderOpts == <<RenderReportInfos, {Acme, Markup, PyStr(<<"C","o","m","p","a","n","y">>)}, RenderAccounts,
                Integrities, Volatilities, Kites, Observations>>

\* d is a document with at most MaxFields of the fields the renderers read
IsRenderInput(d) == \E b \in Bodies(RenderKeys, RenderOpts, 1, MaxFields) : d = PyDict(b)

-----------------------------------------------------------------------------
(* The script between two runs, and the pure functions applied to inputs *)

NoFile == [kind |-> "none"]

\* a name of the script's namespace that no statement has bound yet
Unbound == [t |-> "unbound", v |-> <<>>]

AppIdle ==
    /\ uploaded_file = NoFile
    /\ data = Unbound
    /\ schema_version = Unbound
    /\ company = Unbound
    /\ screen = <<>>
    /\ pc = "idle"
    /\ prev_pc = "idle"

FnIdle ==
    /\ fn_data = PyNone
    /\ fn_default = DefaultUnknown
    /\ fn_called = "none"
    /\ fn_ret = PyNone

InitResolve ==
    /\ AppIdle
    /\ IsResolveInput(fn_data)
    /\ fn_default \in Defaults
    /\ fn_called = "none"
    /\ fn_ret = PyNone

CallResolve ==
    /\ fn_called = "none"
    /\ fn_called' = "resolve_company_name"
    /\ fn_ret' = resolve_company_name(fn_data, fn_default)
    /\ UNCHANGED <<fn_data, fn_default, app_vars>>

NextResolve == CallResolve

SpecResolve == InitResolve /\ [][NextResolve]_vars

InitDetect ==
    /\ AppIdle
    /\ IsDetectInput(fn_data)
    /\ fn_default = DefaultUnknown
    /\ fn_called = "none"
    /\ fn_ret = PyNone

CallDetect ==
    /\ fn_called = "none"
    /\ fn_called' = "detect_schema_version"
    /\ fn_ret' = detect_schema_version(fn_data)
    /\ UNCHANGED <<fn_data, fn_default, app_vars>>

NextDetect == CallDetect

SpecDetect == InitDetect /\ [][NextDetect]_vars

\* lines 176-192 applied to a document: the banner, the header and the tiles
SummaryView(d) ==
    LET sv == detect_schema_version(d)
        co == IF IsExc(sv) THEN sv ELSE resolve_company_name(d, DefaultUnknown)
        h  == Header(d, co)
        e  == FirstExc(<<sv, co, h, MetricIntegrity(d), MetricKite(d),
                         MetricVolatility(d), MetricAccounts(d)>>)
    IN IF IsExc(e) THEN e
       ELSE [t |-> "view",
             v |-> << Banner(co, sv), h, MetricIntegrity(d), MetricKite(d),
                      MetricVolatility(d), MetricAccounts(d) >>]

InitRender ==
    /\ AppIdle
    /\ IsRenderInput(fn_data)
    /\ fn_default = DefaultUnknown
    /\ fn_called = "none"
    /\ fn_ret = PyNone

CallSummary ==
    /\ fn_called = "none"
    /\ fn_called' = "summary"
    /\ fn_ret' = SummaryView(fn_data)
    /\ UNCHANGED <<fn_data, fn_default, app_vars>>

CallHtml ==
    /\ fn_called = "none"
    /\ \E now \in Clock :
         /\ fn_called' = "generate_interactive_html"
         /\ fn_ret' = generate_interactive_html(fn_data, now)
    /\ UNCHANGED <<fn_data, fn_default, app_vars>>

NextRender == CallSummary \/ CallHtml

SpecRender == InitRender /\ [][NextRender]_vars

-----------------------------------------------------------------------------
(* The main script: one run per user interaction with the uploader *)

\* the most recognised fields an uploaded document sets
MaxAppFields == 1

JsonFile(value) == [kind |-> "file", valid |-> TRUE, value |-> value, err |-> EmptyStr]

BadFile(msg) == [kind |-> "file", valid |-> FALSE, value |-> PyNone, err |-> PyStr(msg)]

ParseErrors == { <<"E","x","p","e","c","t","i","n","g"," ","v","a","l","u","e">>, <<"E","x","t","r","a"," ","d","a","t","a">> }

AppOpts ==
    << { PyDict(<<KV("company_name", Acme), KV("period_start", PyStr(<<"J","a","n">>)),
                  KV("period_end", PyStr(<<"J","u","n">>)), KV("total_months", PyNum(6))>>),
         PyDict(<<KV("company", PyStr(<<"O","t","h","e","r"," ","C","o">>)), KV("schema_version", PyStr(<<"5",".","1">>))>>),
         PyDict(<<KV("company_name", PyStr(<<"U","N","K","N","O","W","N">>))>>), PyNone, PyStr(<<"x">>) },
       { Acme, Markup, PyStr(<<"O","t","h","e","r"," ","C","o">>), PyStr(<<"C","o","m","p","a","n","y">>) },
       { PyList(<<EmptyDict, EmptyDict>>), PyNone, PyNum(5),
         PyList(<<PyDict(<<KV("monthly_summary",
                             PyList(<<PyDict(<<KV("highest_intraday", PyNum(1))>>)>>))>>)>>) },
       { PyDict(<<KV("score", PyNum(80)), KV("rating", PyStr(<<"G","O","O","D">>))>>),
         PyDict(<<KV("rating", Markup)>>), PyStr(<<"x">>) },
       { PyDict(<<KV("overall_index", PyNum(42)), KV("overall_level", PyStr(<<"H","I","G","H">>))>>),
         PyDict(<<KV("overall_index", PyStr(<<"4","2">>))>>), PyNone },
       { PyDict(<<KV("risk_score", PyNum(3)), KV("risk_level", PyStr(<<"M","E","D">>))>>),
         PyDict(<<KV("risk_level", Markup)>>), PyNum(5) },
       { PyDict(<<KV("positive", PyList(<<Acme, Markup>>))>>),
         PyDict(<<KV("positive", PyNum(5))>>), EmptyDict } >>

AppDocs ==
    NotMappings
    \cup { PyDict(b) : b \in Bodies(RenderKeys, AppOpts, 1, MaxAppFields) }
    \cup { PyDict(<<KV("report_info", PyDict(<<KV("company_name", Acme)>>)),
                    KV("company", PyStr(<<"O","t","h","e","r"," ","C","o">>))>>),
           PyDict(<<KV("entity_name", PyStr(<<" ","A","c","m","e","\t">>))>>),
           PyDict(<<KV("recurring_payments", PyList(<<PyNum(1)>>))>>) }

Uploads ==
    {NoFile} \cup { BadFile(m) : m \in ParseErrors } \cup { JsonFile(d) : d \in AppDocs }

\* json.load(uploaded_file)
json_load(f) == IF f.valid THEN f.value ELSE Exc("JSONDecodeError")

Finished == {"stopped", "crashed", "done"}

\* an exception leaves the script: Streamlit shows it and the run ends
Show(x, next) ==
    IF IsExc(x)
    THEN screen' = Append(screen, ExceptionElement(x)) /\ pc' = "crashed"
    ELSE screen' = Append(screen, x) /\ pc' = next

Init ==
    /\ uploaded_file = NoFile
    /\ data = Unbound
    /\ schema_version = Unbound
    /\ company = Unbound
    /\ screen = <<>>
    /\ pc = "l165"
    /\ prev_pc = "idle"
    /\ FnIdle

\* lines 160-163: the user picks, replaces or removes the file; Streamlit
\* clears the page and runs the script again in a fresh namespace
Rerun ==
    /\ pc \in Finished
    /\ uploaded_file' \in Uploads
    /\ data' = Unbound
    /\ schema_version' = Unbound
    /\ company' = Unbound
    /\ screen' = <<>>
    /\ prev_pc' = pc
    /\ pc' = "l165"
    /\ UNCHANGED fn_vars

\* line 165 left out: data is never bound before line 172 reads it
ResetData_Skipped ==
    /\ pc = "l165"
    /\ pc' = "l166"
    /\ UNCHANGED <<uploaded_file, data, schema_version, company, screen, prev_pc, fn_vars>>

\* line 165
ResetData ==
    /\ pc = "l165"
    /\ data' = PyNone
    /\ pc' = "l166"
    /\ UNCHANGED <<uploaded_file, schema_version, company, screen, prev_pc, fn_vars>>

\* lines 166-170
LoadUpload ==
    /\ pc = "l166"
    /\ IF uploaded_file.kind = "none"
       THEN UNCHANGED <<data, screen>>
       ELSE IF IsExc(json_load(uploaded_file))
            THEN /\ screen' = Append(screen, ErrorElement(uploaded_file.err))
                 /\ UNCHANGED data
            ELSE /\ data' = json_load(uploaded_file)
                 /\ UNCHANGED screen
    /\ pc' = "l172"
    /\ UNCHANGED <<uploaded_file, schema_version, company, prev_pc, fn_vars>>

\* lines 172-174 without st.stop(): the prompt is shown and the run goes on
StopIfNoData_NoStop ==
    /\ pc = "l172"
    /\ IF data = Unbound
       THEN Show(Exc("NameError"), "crashed")
       ELSE IF ~Truthy(data)
            THEN screen' = Append(screen, InfoElement) /\ pc' = "l176"
            ELSE pc' = "l176" /\ UNCHANGED screen
    /\ UNCHANGED <<uploaded_file, data, schema_version, company, prev_pc, fn_vars>>

\* lines 172-174
StopIfNoData ==
    /\ pc = "l172"
    /\ IF data = Unbound
       THEN Show(Exc("NameError"), "crashed")
       ELSE IF ~Truthy(data)
            THEN screen' = Append(screen, InfoElement) /\ pc' = "stopped"
            ELSE pc' = "l176" /\ UNCHANGED screen
    /\ UNCHANGED <<uploaded_file, data, schema_version, company, prev_pc, fn_vars>>

\* line 176
DetectSchema ==
    /\ pc = "l176"
    /\ IF IsExc(detect_schema_version(data))
       THEN Show(detect_schema_version(data), "crashed") /\ UNCHANGED schema_version
       ELSE /\ schema_version' = detect_schema_version(data)
            /\ pc' = "l177"
            /\ UNCHANGED screen
    /\ UNCHANGED <<uploaded_file, data, company, prev_pc, fn_vars>>

\* line 177
ResolveCompany ==
    /\ pc = "l177"
    /\ IF IsExc(resolve_company_name(data, DefaultUnknown))
       THEN Show(resolve_company_name(data, DefaultUnknown), "crashed") /\ UNCHANGED company
       ELSE /\ company' = resolve_company_name(data, DefaultUnknown)
            /\ pc' = "l179"
            /\ UNCHANGED screen
    /\ UNCHANGED <<uploaded_file, data, schema_version, prev_pc, fn_vars>>

\* line 179
ShowBanner ==
    /\ pc = "l179"
    /\ Show(Banner(company, schema_version), "l181")
    /\ UNCHANGED <<uploaded_file, data, schema_version, company, prev_pc, fn_vars>>

\* lines 181-186
ShowHeader ==
    /\ pc = "l181"
    /\ Show(Header(data, company), "l189")
    /\ UNCHANGED <<uploaded_file, data, schema_version, company, prev_pc, fn_vars>>

\* lines 188-189
ShowIntegrity ==
    /\ pc = "l189"
    /\ Show(MetricIntegrity(data), "l190")
    /\ UNCHANGED <<uploaded_file, data, schema_version, company, prev_pc, fn_vars>>

\* line 190
ShowKite ==
    /\ pc = "l190"
    /\ Show(MetricKite(data), "l191")
    /\ UNCHANGED <<uploaded_file, data, schema_version, company, prev_pc, fn_vars>>

\* line 191
ShowVolatility ==
    /\ pc = "l191"
    /\ Show(MetricVolatility(data), "l192")
    /\ UNCHANGED <<uploaded_file, data, schema_version, company, prev_pc, fn_vars>>

\* lines 192-194: the fourth tile, then the divider
ShowAccounts ==
    /\ pc = "l192"
    /\ IF IsExc(MetricAccounts(data))
       THEN Show(MetricAccounts(data), "crashed")
       ELSE /\ screen' = screen \o <<MetricAccounts(data), Divider>>
            /\ pc' = "l198"
    /\ UNCHANGED <<uploaded_file, data, schema_version, company, prev_pc, fn_vars>>

\* lines 196-203
OfferJson ==
    /\ pc = "l198"
    /\ Show(DownloadJson(data, company), "l206")
    /\ UNCHANGED <<uploaded_file, data, schema_version, company, prev_pc, fn_vars>>

\* lines 205-211; datetime.now() is whatever the wall clock reads
OfferHtml ==
    /\ pc = "l206"
    /\ \E now \in Clock : Show(DownloadHtml(data, company, now), "done")
    /\ UNCHANGED <<uploaded_file, data, schema_version, company, prev_pc, fn_vars>>

Next ==
    \/ Rerun
    \/ ResetData
    \/ LoadUpload
    \/ StopIfNoData
    \/ DetectSchema
    \/ ResolveCompany
    \/ ShowBanner
    \/ ShowHeader
    \/ ShowIntegrity
    \/ ShowKite
    \/ ShowVolatility
    \/ ShowAccounts
    \/ OfferJson
    \/ OfferHtml

Spec == Init /\ [][Next]_vars

-----------------------------------------------------------------------------
(* Vocabulary of the properties *)

\* d[k1][k2] where every hop exists and d[k1] is a mapping, else dflt
SafePath(d, k1, k2, dflt) ==
    IF d.t = "dict" /\ HasKey(d, k1) /\ DictGet(d, k1, PyNone).t = "dict"
       /\ HasKey(DictGet(d, k1, PyNone), k2)
    THEN DictGet(DictGet(d, k1, PyNone), k2, dflt)
    ELSE dflt

SafeTop(d, k, dflt) == IF d.t = "dict" /\ HasKey(d, k) THEN DictGet(d, k, dflt) ELSE dflt

\* the six candidates in the documented priority order; an absent one is null
DocumentedCandidates(d) ==
    << SafePath(d, "report_info", "company_name", PyNone),
       SafePath(d, "report_info", "company", PyNone),
       SafePath(d, "report_info", "entity_name", PyNone),
       SafeTop(d, "company_name", PyNone),
       SafeTop(d, "company", PyNone),
       SafeTop(d, "entity_name", PyNone) >>

DocumentedQualifies(c) ==
    c.t = "str" /\ strip(c.v) # <<>> /\ lower(strip(c.v)) \notin Blocklist

SomeCandidateQualifies(d) ==
    \E i \in 1..6 : DocumentedQualifies(DocumentedCandidates(d)[i])

DocumentedName(d, default) ==
    IF SomeCandidateQualifies(d)
    THEN LET cs == DocumentedCandidates(d)
             i  == CHOOSE k \in 1..6 :
                      DocumentedQualifies(cs[k]) /\ \A j \in 1..(k-1) : ~DocumentedQualifies(cs[j])
         IN PyStr(strip(cs[i].v))
    ELSE default

ResolveCalled == fn_called = "resolve_company_name"

\* C1: for every mapping document and default, resolve_company_name returns
\* the trimmed, case-preserved first qualifying candidate in the documented
\* order, and the default when no candidate qualifies.
C1_ReturnsFirstQualifying ==
    (ResolveCalled /\ fn_data.t = "dict") => fn_ret = DocumentedName(fn_data, fn_default)

\* The same statement for the documents whose report_info is absent, falsy
\* or a mapping.
ResolveOnGuardedReportInfo ==
    (ResolveCalled /\ fn_data.t = "dict"
       /\ (~Truthy(SafeTop(fn_data, "report_info", PyNone))
           \/ SafeTop(fn_data, "report_info", PyNone).t = "dict"))
    => fn_ret = DocumentedName(fn_data, fn_default)

ResolvePriorityReached ==
    /\ ResolveCalled /\ fn_data.t = "dict"
    /\ Cardinality({i \in 1..6 : DocumentedQualifies(DocumentedCandidates(fn_data)[i])}) = 2
    /\ fn_ret # fn_default

WithoutReportInfo(d) == PyDict(SelectSeq(d.v, LAMBDA e : e.k # "report_info"))

\* C7: resolve_company_name lets no exception escape: a non-mapping input
\* gives the default, and a report_info that is not a mapping counts as empty,
\* so that the result is that of the top-level candidates or the default.
C7_NoExceptionEscapes ==
    ResolveCalled =>
        /\ ~IsExc(fn_ret)
        /\ fn_data.t # "dict" => fn_ret = fn_default
        /\ (fn_data.t = "dict" /\ SafeTop(fn_data, "report_info", EmptyDict).t # "dict")
             => fn_ret = DocumentedName(WithoutReportInfo(fn_data), fn_default)

\* For every non-mapping input the supplied default is returned.
ResolveNonMappingGivesDefault ==
    (ResolveCalled /\ fn_data.t # "dict") => fn_ret = fn_default

DetectCalled == fn_called = "detect_schema_version"

DocumentedRule1(d) ==
    LET sv == SafePath(d, "report_info", "schema_version", PyNone)
    IN sv.t = "str" /\ startswith(sv.v, <<"5", ".">>)

DocumentedRule2(d) ==
    \/ Truthy(SafeTop(d, "recurring_payments", PyNone))
    \/ Truthy(SafeTop(d, "non_bank_financing", PyNone))

DocumentedRule3(d) ==
    LET accounts == SafeTop(d, "accounts", EmptyList)
    IN /\ accounts.t = "list" /\ Len(accounts.v) > 0
       /\ LET monthly == SafeTop(accounts.v[1], "monthly_summary", EmptyList)
          IN /\ monthly.t = "list" /\ Len(monthly.v) > 0
             /\ monthly.v[1].t = "dict" /\ HasKey(monthly.v[1], "highest_intraday")

DocumentedVersion(d) ==
    IF DocumentedRule1(d) \/ DocumentedRule2(d) \/ DocumentedRule3(d) THEN V5 ELSE V4

\* C2: for every mapping document detect_schema_version returns "5.0" or
\* "4.0" as the first matching rule of the documented order decides; a document
\* satisfying none of the three positive rules is classified "4.0".
C2_FirstMatchingRule ==
    (DetectCalled /\ fn_data.t = "dict") => fn_ret = DocumentedVersion(fn_data)

\* C6: detect_schema_version never fails: whatever is absent or of an
\* unexpected type in the document, it returns "5.0" or "4.0".
C6_DetectNeverFails ==
    (DetectCalled /\ fn_data.t = "dict") => fn_ret \in {V5, V4}

\* Whenever detect_schema_version returns, it returns what the rules say,
\* unless the first month element is a str or list holding the key's name.
DetectAgreesWhenItReturns ==
    (DetectCalled /\ fn_data.t = "dict" /\ ~IsExc(fn_ret))
    => \/ fn_ret = DocumentedVersion(fn_data)
       \/ /\ fn_ret = V5
          /\ LET a == SafeTop(fn_data, "accounts", EmptyList)
             IN a.t = "list" /\ Len(a.v) > 0

HtmlCalled == fn_called = "generate_interactive_html"

SummaryCalled == fn_called = "summary"

MarkupChars == {"<", ">", "&", "\""}

Entities == { <<"&","l","t",";">>, <<"&","g","t",";">>, <<"&","a","m","p",";">>,
              <<"&","q","u","o","t",";">>, <<"&","#","x","2","7",";">> }

\* no markup-significant character of s stands unescaped
IsEscaped(s) ==
    \A i \in 1..Len(s) :
        /\ s[i] \notin MarkupChars \ {"&"}
        /\ s[i] = "&" => \E e \in Entities :
                             i + Len(e) - 1 <= Len(s) /\ SubSeq(s, i, i + Len(e) - 1) = e

UntrustedSlots == {"title", "h1", "int_rating", "vol_level", "kite_level", "li"}

\* C5: the HTML of generate_interactive_html holds no unescaped <, >, & or
\* quote coming from the company name, a rating or level, or an observation.
C5_UntrustedTextEscaped ==
    (HtmlCalled /\ fn_ret.t = "html") =>
        \A i \in 1..Len(fn_ret.v) :
            (fn_ret.v[i].src \in UntrustedSlots /\ fn_ret.v[i].val.t = "str")
            => IsEscaped(fn_ret.v[i].val.v)

PartVal(parts, slot) == parts[CHOOSE i \in 1..Len(parts) : parts[i].src = slot].val

DocumentedHtmlFields(d, parts) ==
    /\ PartVal(parts, "period_start") = SafePath(d, "report_info", "period_start", EmptyStr)
    /\ PartVal(parts, "period_end") = SafePath(d, "report_info", "period_end", EmptyStr)
    /\ PartVal(parts, "total_months") = SafePath(d, "report_info", "total_months", PyNum(0))
    /\ PartVal(parts, "int_score") = SafePath(d, "integrity_score", "score", PyNum(0))
    /\ PartVal(parts, "int_rating") = SafePath(d, "integrity_score", "rating", StrNA)
    /\ PartVal(parts, "vol_level") = SafePath(d, "volatility", "overall_level", StrLOW)
    /\ PartVal(parts, "kite_score") = SafePath(d, "kite_flying", "risk_score", PyNum(0))
    /\ PartVal(parts, "kite_level") = SafePath(d, "kite_flying", "risk_level", StrLOW)
    /\ ~HasKey(d, "volatility") => PartVal(parts, "vol_index") = PyNum(0)
    /\ ~HasKey(d, "observations") => \A i \in 1..Len(parts) : parts[i].src # "li"

DocumentedSummaryFields(d, view) ==
    /\ PartVal(view[2].body, "period_start") = SafePath(d, "report_info", "period_start", EmptyStr)
    /\ PartVal(view[2].body, "period_end") = SafePath(d, "report_info", "period_end", EmptyStr)
    /\ PartVal(view[2].body, "total_months") = SafePath(d, "report_info", "total_months", PyNum(0))
    /\ PartVal(view[3].body, "score") = SafePath(d, "integrity_score", "score", PyNum(0))
    /\ PartVal(view[4].body, "risk_score") = SafePath(d, "kite_flying", "risk_score", PyNum(0))
    /\ ~HasKey(d, "volatility") => PartVal(view[5].body, "overall_index") = PyNum(0)
    /\ ~HasKey(d, "accounts") => PartVal(view[6].body, "len") = PyNum(0)

\* C8: for every mapping document both render modes complete, whatever
\* field is absent or of an unexpected type, and an absent field shows its
\* documented default.
C8_RenderCompletesWithDefaults ==
    /\ HtmlCalled => (fn_ret.t = "html" /\ DocumentedHtmlFields(fn_data, fn_ret.v))
    /\ SummaryCalled => (fn_ret.t = "view" /\ DocumentedSummaryFields(fn_data, fn_ret.v))

\* A render that completes shows the documented default of each absent field.
RenderDefaultsWhenComplete ==
    /\ (HtmlCalled /\ fn_ret.t = "html") => DocumentedHtmlFields(fn_data, fn_ret.v)
    /\ (SummaryCalled /\ fn_ret.t = "view") => DocumentedSummaryFields(fn_data, fn_ret.v)

-----------------------------------------------------------------------------
(* Properties of the main script *)

ParseFailed == uploaded_file.kind = "file" /\ ~uploaded_file.valid

ParsedJson == uploaded_file.kind = "file" /\ uploaded_file.valid

Kinds(scr) == { scr[i].kind : i \in 1..Len(scr) }

RenderedKinds == {"success", "markdown", "metric", "download_button"}

\* C3: an upload that is not valid JSON shows the parse error text and the
\* run halts: detection, resolution, banner, tiles and downloads are never
\* reached with a null or partial document.
C3_ParseFailureHalts ==
    ParseFailed =>
        /\ pc \in {"l165", "l166", "l172", "stopped"}
        /\ schema_version = Unbound /\ company = Unbound
        /\ Kinds(screen) \cap RenderedKinds = {}
        /\ pc \in {"l172", "stopped"} =>
             /\ data = PyNone
             /\ screen[1] = ErrorElement(uploaded_file.err)
             /\ PartVal(screen[1].body, "e") = uploaded_file.err

C3_Witness ==
    /\ ParseFailed
    /\ pc = "stopped"
    /\ screen[1].kind = "error"
    /\ PartVal(screen[1].body, "e") = uploaded_file.err

FullyRendered(scr) ==
    /\ Len(scr) = 9
    /\ [i \in 1..9 |-> scr[i].kind] =
         << "success", "markdown", "metric", "metric", "metric", "metric",
            "markdown", "download_button", "download_button" >>

\* C4: nothing but JSON parsing is validated: every upload that parses
\* reaches the rendered state (banner, header, four tiles, both downloads),
\* and the upload prompt with halt is reached only with no file or a failed
\* parse.
C4_EveryParsedUploadRenders ==
    pc \in Finished =>
        /\ ParsedJson => (pc = "done" /\ FullyRendered(screen))
        /\ "info" \in Kinds(screen) => (uploaded_file.kind = "none" \/ ParseFailed)

\* the elements of lines 176-211 for document d, each an element or the
\* exception its statement raises
PassElements(d, now) ==
    LET sv == detect_schema_version(d)
        co == resolve_company_name(d, DefaultUnknown)
    IN IF IsExc(sv) THEN <<sv>>
       ELSE IF IsExc(co) THEN <<co>>
       ELSE << Banner(co, sv), Header(d, co), MetricIntegrity(d), MetricKite(d),
               MetricVolatility(d), MetricAccounts(d), Divider,
               DownloadJson(d, co), DownloadHtml(d, co, now) >>

CutAtException(xs) ==
    IF \E i \in 1..Len(xs) : IsExc(xs[i])
    THEN LET i == CHOOSE k \in 1..Len(xs) : IsExc(xs[k]) /\ \A j \in 1..(k-1) : ~IsExc(xs[j])
         IN SubSeq(xs, 1, i - 1) \o <<ExceptionElement(xs[i])>>
    ELSE xs

\* what one run over upload f alone puts on the page
ViewOf(f, now) ==
    IF f.kind = "none" THEN <<InfoElement>>
    ELSE IF ~f.valid THEN <<ErrorElement(f.err), InfoElement>>
    ELSE IF ~Truthy(f.value) THEN <<InfoElement>>
    ELSE CutAtException(PassElements(f.value, now))

StripTimestamp(scr) ==
    [i \in 1..Len(scr) |->
        [scr[i] EXCEPT !.body =
            [j \in 1..Len(@) |->
                IF @[j].src = "generated" THEN [@[j] EXCEPT !.val = PyNum(0)] ELSE @[j]]]]

\* C9: after any sequence of uploads the page and the downloads are a
\* function of the most recent upload alone, up to the generation timestamp of
\* the HTML document; nothing of an earlier document stays after a failed
\* upload.
C9_ViewIsFunctionOfLastUpload ==
    pc \in Finished => StripTimestamp(screen) = StripTimestamp(ViewOf(uploaded_file, 1))

C9_Witness ==
    /\ prev_pc = "done"
    /\ pc = "stopped"
    /\ ParseFailed
    /\ Len(screen) = 2

HtmlBody == screen[9].body

ShownNames == << PartVal(screen[1].body, "company"), PartVal(screen[2].body, "company") >>

\* the on-screen name, its two file names and the HTML's two names agree
\* among themselves
NamesAgreeWithinEachMode ==
    /\ ShownNames[1] = ShownNames[2]
    /\ screen[8].file = replace(ShownNames[1].v, " ", "_") \o <<"_analysis.json">>
    /\ screen[9].file = replace(ShownNames[1].v, " ", "_") \o <<"_analysis.html">>
    /\ \A i \in 1..Len(screen[8].file) : screen[8].file[i] # " "
    /\ PartVal(HtmlBody, "title") = HtmlBody[2].val
    /\ HtmlBody[2].src = "h1"

\* C10 as first stated: in a run that renders, banner, header and file
\* names carry the same company name as the title and heading of the HTML
\* document, also when the resolver falls back to its default.
C10_SameNameEverywhere ==
    pc = "done" =>
        /\ NamesAgreeWithinEachMode
        /\ PartVal(HtmlBody, "title") = ShownNames[1]

\* C10 amended: the names agree whenever some candidate qualifies; when
\* none does, the page and the file names carry "Unknown" and the HTML
\* document carries "Company".
C10_SameNameWhenResolved ==
    pc = "done" =>
        /\ NamesAgreeWithinEachMode
        /\ SomeCandidateQualifies(data) =>
             /\ PartVal(HtmlBody, "title") = ShownNames[1]
             /\ ShownNames[1] = DocumentedName(data, DefaultUnknown)
        /\ ~SomeCandidateQualifies(data) =>
             /\ ShownNames[1] = DefaultUnknown
             /\ PartVal(HtmlBody, "title") = DefaultCompany

C10_Witness ==
    /\ pc = "done"
    /\ SomeCandidateQualifies(data)
    /\ PartVal(HtmlBody, "title") = ShownNames[1]
    /\ \E i \in 1..Len(screen[9].file) : screen[9].file[i] = "_"

C10_FallbackReached ==
    /\ pc = "done"
    /\ ~SomeCandidateQualifies(data)
    /\ PartVal(HtmlBody, "title") = DefaultCompany

====
